---- MODULE Spec2Model ----
(***************************************************************************)
(* Model of the resty parallel request orchestrator                        *)
(* (src/unnamed/part_000): Resty.Do fans one request out per target url,   *)
(* Resty.httpDo executes a request with retries and posts one Result to    *)
(* the buffered channel r.done, and Resty.Wait / Resty.First reduce the    *)
(* channel under the batch context r.ctx.                                  *)
(***************************************************************************)
EXTENDS Integers, Sequences, FiniteSets, TLC

\* ---- bounds of the model ----
MaxTargets == 2       \* len(urls) ranges over 0..MaxTargets
MaxRetry == 3         \* r.retry ranges over 0..MaxRetry
MaxCalls == 4         \* a batch needs at most MaxCalls client calls: qty * retry
MaxReplicas == 4      \* len(req.a.Blobbers) ranges over 0..MaxReplicas
MaxLogs == 3          \* logs the subscription of an iterator delivers at most

\* ---- values ----
Nil == "nil"                      \* a nil error
NilResp == [status |-> 0, attempt |-> 0]                \* a nil *http.Response
NoResult == [req |-> 0, resp |-> NilResp, err |-> Nil]  \* no Result yet
NilSlice == [isNil |-> TRUE, list |-> <<>>]             \* a nil []error
Slice(es) == [isNil |-> FALSE, list |-> es]             \* a non-nil []error
Targets == 1..MaxTargets
Replicas == 1..MaxReplicas
NoBody == -1                      \* request.Body == nil
OriginalBody == 0                 \* the reader http.NewRequest wrapped
StatusOK == 200
StatusCreated == 201
StatusAccepted == 202
StatusNoContent == 204
StatusTooManyRequests == 429

\* status codes a client may answer with; 500 stands for every status that is
\* neither a success nor the rate-limit status
AllStatuses == {StatusOK, StatusCreated, StatusAccepted, StatusNoContent,
                StatusTooManyRequests, 500}

VARIABLES
    qty,        \* r.qty: number of target urls of the batch
    retry,      \* r.retry
    hasHandle,  \* r.handle != nil
    codes,      \* the statuses the plugged-in Client answers with
    ctx,        \* r.ctx: "active" or "done"
    done,       \* r.done: the buffered channel of Result, as a sequence
    doIdx,      \* Do: index of the next url of the range loop
    wpc,        \* per target: position of its request / worker goroutine
    wi,         \* per target: loop variable i of the retry loop
    calls,      \* per target: number of r.client.Do invocations so far
    sleeps,     \* per target: number of sys.Sleep invocations so far
    hist,       \* per target: what r.client.Do returned, attempt by attempt
    closes,     \* per target: Close() calls on the response body of each attempt
    bodyKind,   \* the request body: "none", "cloneable" (POST/PUT with GetBody)
                \* or "plain" (POST/PUT whose reader http.NewRequest cannot clone)
    reqBody,    \* per target: request.Body, the reader the next attempt sends
    bodyUsed,   \* per target: the reader each attempt has sent
    wresp,      \* per target: local resp of the worker
    werr,       \* per target: local err of the worker
    result,     \* per target: the Result built at line 189
    posted,     \* per target: number of Results sent to r.done
    rkind,      \* reducer called by the caller: "none", "Wait" or "First"
    rpc,        \* position of the reducer
    errs,       \* reducer: local errs
    ndone,      \* reducer: local done counter
    cur,        \* reducer: the Result just received
    consumed,   \* reducer: log of <<Result, rejected>> it has handled
    ret,        \* reducer: the value of the return statement taken
    retPath,    \* reducer: the return statement taken
    redCancels, \* cancelFunc invocations made by the reducer's defer
    hdlCancels, \* cancelFunc invocations made by the handler
    numList,    \* collaborator request: len(req.a.Blobbers)
    thresh,     \* collaborator request: the threshold of req.consensus
    consensus,  \* collaborator request: the count of req.consensus
    cop,        \* the collaborator operation called: "none", "Update", "Remove"
    cpc,        \* position of the calling goroutine in that operation
    ci,         \* loop variable i of its receive loop
    wg,         \* counter of req.wg
    rspCh,      \* the buffered channel rspCh, as a sequence of booleans
    bpc,        \* per replica: position of its worker goroutine
    accepted,   \* per replica: "none", "unbuilt" (no request, handler never
                \* run), or what its handler was given: "yes" (200) or "no"
    verdict,    \* the boolean the operation returned
    rDone,      \* Do called twice: the channel r.done holds, named by the
                \* batch whose Do made it; "none" before the first Do
    rQty,       \* Do called twice: r.qty
    chan,       \* per batch: the channel its Do made, as a sequence of Results
    chanCap,    \* per batch: the capacity of that channel
    hpc,        \* per batch and target: position of its httpDo goroutine
    xbatch,     \* the batch whose Do preceded the call of Wait
    xpc,        \* position of that call of Wait
    xdone,      \* its local done counter
    xgot,       \* the Results it has received
    itLogs,     \* iterator: the channel it.logs, as a sequence of logs
    subErr,     \* iterator: the channel it.sub.Err(): "open" (nothing to
                \* receive), "nil" (completed) or an error waiting, "closed"
    produced,   \* logs the subscription has sent so far
    itDone,     \* iterator: it.done
    itFail,     \* iterator: it.fail
    itEvent,    \* iterator: the log of it.Event, 0 for none
    npc,        \* position of the caller in Next(): "idle" or "entered"
    nret,       \* what the last call of Next returned, and through which
                \* return statement
    delivered   \* the logs for which Next returned true, in order

cfgVars == <<qty, retry, hasHandle, codes, bodyKind>>
workerVars == <<wpc, wi, calls, sleeps, hist, closes, reqBody, bodyUsed, wresp, werr, result>>
reducerVars == <<rkind, rpc, errs, ndone, cur, consumed, ret, retPath, redCancels, hdlCancels>>
collabVars == <<numList, thresh, consensus, cop, cpc, ci, wg, rspCh, bpc, accepted, verdict>>
batchVars == <<rDone, rQty, chan, chanCap, hpc, xbatch, xpc, xdone, xgot>>
iterVars == <<itLogs, subErr, produced, itDone, itFail, itEvent, npc, nret, delivered>>
vars == <<qty, retry, hasHandle, codes, ctx, done, doIdx, wpc, wi, calls, sleeps,
          hist, closes, bodyKind, reqBody, bodyUsed, wresp, werr, result, posted,
          rkind, rpc, errs, ndone,
          cur, consumed, ret, retPath, redCancels, hdlCancels, collabVars, batchVars, iterVars>>

\* ---- pure helpers ----

\* an unrecovered panic in a goroutine ends the whole program
Crashed == \E t \in Targets : wpc[t] = "panic"

\* lines 159-162: resp != nil && StatusCode in {200, 201, 202, 204}
IsSuccessOnly200(resp) == resp # NilResp /\ resp.status = StatusOK
IsSuccess(resp) ==
    resp # NilResp /\ (resp.status = StatusOK \/ resp.status = StatusCreated \/
                   resp.status = StatusAccepted \/ resp.status = StatusNoContent)

\* line 108: make(chan Result, r.qty)
ChanCapShort(n) == IF n > 0 THEN n - 1 ELSE 0
ChanCap(n) == n

\* what one r.client.Do call can return: a response with a status and a nil
\* error, or no response and a transport error; once the context is done the
\* call may also fail with the context's error
ClientOutcomes(c) ==
    {[status |-> s, err |-> Nil] : s \in codes}
    \cup {[status |-> 0, err |-> "transport"]}
    \cup (IF c = "done" THEN {[status |-> 0, err |-> "canceled"]} ELSE {})

\* ---- initial state: New(opts...) followed by lines 105-110 of Do ----

InitWith(Q, R, H, C, B) ==
    /\ qty \in Q
    /\ retry \in R
    /\ hasHandle \in H
    /\ codes \in C
    /\ ctx = "active"
    /\ done = <<>>
    /\ doIdx = 1
    /\ wpc = [t \in Targets |-> "pending"]
    /\ wi = [t \in Targets |-> 0]
    /\ calls = [t \in Targets |-> 0]
    /\ sleeps = [t \in Targets |-> 0]
    /\ hist = [t \in Targets |-> <<>>]
    /\ closes = [t \in Targets |-> <<>>]
    /\ bodyKind \in B
    /\ reqBody = [t \in Targets |-> IF bodyKind = "none" THEN NoBody ELSE OriginalBody]
    /\ bodyUsed = [t \in Targets |-> <<>>]
    /\ wresp = [t \in Targets |-> NilResp]
    /\ werr = [t \in Targets |-> Nil]
    /\ result = [t \in Targets |-> NoResult]
    /\ posted = [t \in Targets |-> 0]
    /\ rkind = "none"
    /\ rpc = "idle"
    /\ errs = <<>>
    /\ ndone = 0
    /\ cur = NoResult
    /\ consumed = <<>>
    /\ ret = NilSlice
    /\ retPath = "none"
    /\ redCancels = 0
    /\ hdlCancels = 0

\* ---- Resty.Do: the range loop over urls, lines 112-135 ----

\* lines 114-118 and 127-131: the request cannot be built, or the interceptor
\* rejects it: the Result is sent from Do itself and the loop continues
DoFailNoContinue(t, e) ==
    /\ ~Crashed
    /\ doIdx = t /\ t <= qty
    /\ Len(done) < ChanCap(qty)
    /\ done' = Append(done, [req |-> t, resp |-> NilResp, err |-> e])
    /\ posted' = [posted EXCEPT ![t] = @ + 1]
    /\ result' = [result EXCEPT ![t] = [req |-> t, resp |-> NilResp, err |-> e]]
    /\ wpc' = [wpc EXCEPT ![t] = "loop"]
    /\ wi' = [wi EXCEPT ![t] = 1]
    /\ doIdx' = doIdx + 1
    /\ UNCHANGED <<iterVars, batchVars, collabVars, cfgVars, ctx, calls, sleeps, hist, closes, reqBody, bodyUsed, wresp, werr, reducerVars>>

DoFailAborts(t, e) ==
    /\ ~Crashed
    /\ doIdx = t /\ t <= qty
    /\ Len(done) < ChanCap(qty)
    /\ done' = Append(done, [req |-> t, resp |-> NilResp, err |-> e])
    /\ posted' = [posted EXCEPT ![t] = @ + 1]
    /\ result' = [result EXCEPT ![t] = [req |-> t, resp |-> NilResp, err |-> e]]
    /\ wpc' = [wpc EXCEPT ![t] = "failed"]
    /\ doIdx' = qty + 1
    /\ UNCHANGED <<iterVars, batchVars, collabVars, cfgVars, ctx, wi, calls, sleeps, hist, closes, reqBody, bodyUsed, wresp,
                   werr, reducerVars>>

DoFail(t, e) ==
    /\ ~Crashed
    /\ doIdx = t /\ t <= qty
    /\ Len(done) < ChanCap(qty)
    /\ done' = Append(done, [req |-> t, resp |-> NilResp, err |-> e])
    /\ posted' = [posted EXCEPT ![t] = @ + 1]
    /\ result' = [result EXCEPT ![t] = [req |-> t, resp |-> NilResp, err |-> e]]
    /\ wpc' = [wpc EXCEPT ![t] = "failed"]
    /\ doIdx' = doIdx + 1
    /\ UNCHANGED <<iterVars, batchVars, collabVars, cfgVars, ctx, wi, calls, sleeps, hist, closes, reqBody, bodyUsed, wresp, werr, reducerVars>>

\* line 115: http.NewRequest returned an error
DoBuildFail(t) == DoFail(t, "build")

\* line 128: r.requestInterceptor(req) returned an error
DoInterceptFail(t) == DoFail(t, "intercept")

\* line 134: go r.httpDo(req.WithContext(r.ctx)); the goroutine of httpDo
\* starts the worker goroutine of line 144 and waits for it
DoDispatch(t) ==
    /\ ~Crashed
    /\ doIdx = t /\ t <= qty
    /\ wpc' = [wpc EXCEPT ![t] = "loop"]
    /\ wi' = [wi EXCEPT ![t] = 1]
    /\ doIdx' = doIdx + 1
    /\ UNCHANGED <<iterVars, batchVars, collabVars, cfgVars, ctx, done, calls, sleeps, hist, closes, reqBody, bodyUsed, wresp, werr, result,
                   posted, reducerVars>>

\* Do has returned r to its caller
DoReturned == doIdx > qty

\* ---- Resty.httpDo: the worker goroutine, lines 144-204 ----

\* lines 152-154: in the retry loop a POST or PUT request with a body calls
\* request.GetBody, which http.NewRequest leaves nil for a reader it cannot
\* clone: calling it is a nil function call, a run-time panic
GetBodyPanics(kind, r) == r > 0 /\ kind = "plain"

\* lines 151-157 (r.retry > 0) or line 186: the worker invokes r.client.Do,
\* unless taking the body copy panics
ClientCall(t) ==
    /\ ~Crashed
    /\ wpc[t] = "loop"
    /\ IF GetBodyPanics(bodyKind, retry)
       THEN /\ wpc' = [wpc EXCEPT ![t] = "panic"]
            /\ UNCHANGED <<calls, bodyUsed>>
       ELSE /\ wpc' = [wpc EXCEPT ![t] = "incall"]
            /\ calls' = [calls EXCEPT ![t] = @ + 1]
            /\ bodyUsed' = [bodyUsed EXCEPT ![t] = Append(@, reqBody[t])]
    /\ UNCHANGED <<iterVars, batchVars, collabVars, cfgVars, ctx, done, doIdx, wi, sleeps, hist, closes, reqBody, wresp,
                   werr, result, posted, reducerVars>>

\* where the worker goes once r.client.Do has returned resp: lines 159-183 when
\* r.retry > 0 (break on success, break on the last attempt, sleep on 429,
\* otherwise the next iteration), line 186 otherwise; after the loop, line 190
\* reads the body when there is a response
AfterAttemptStopsEarly(i, r, resp) ==
    IF r > 0 /\ ~IsSuccess(resp) /\ i + 1 < r
    THEN IF resp # NilResp /\ resp.status = StatusTooManyRequests THEN "sleep" ELSE "next"
    ELSE IF resp # NilResp THEN "read" ELSE "post"

AfterAttemptSleepAlways(i, r, resp) ==
    IF r > 0 /\ ~IsSuccess(resp) /\ i # r
    THEN "sleep"
    ELSE IF resp # NilResp THEN "read" ELSE "post"

AfterAttemptRetriesOnce(i, r, resp) ==
    IF ~IsSuccess(resp) /\ i <= 1
    THEN IF resp # NilResp /\ resp.status = StatusTooManyRequests THEN "sleep" ELSE "next"
    ELSE IF resp # NilResp THEN "read" ELSE "post"

AfterAttempt(i, r, resp) ==
    IF r > 0 /\ ~IsSuccess(resp) /\ i # r
    THEN IF resp # NilResp /\ resp.status = StatusTooManyRequests THEN "sleep" ELSE "next"
    ELSE IF resp # NilResp THEN "read" ELSE "post"

\* lines 166-171: the body of the response of a failed attempt is closed
\* before the retry, unless the attempt is the last one
CloseBeforeRetry(i, r, resp) ==
    r > 0 /\ ~IsSuccess(resp) /\ resp # NilResp /\ i < r

\* lines 152-155: the reader request.GetBody() returns in iteration i, a new
\* one at every call
GetBody(i) == i

\* lines 151-155 and 181-183: with a POST or PUT body, request.Body becomes
\* the copy taken at the head of iteration i before the next attempt
NextBodySame(kind, body, i) == body
NextBody(kind, body, i) ==
    IF kind = "cloneable" /\ body # NoBody THEN GetBody(i) ELSE body

\* lines 157-187: r.client.Do returns the outcome o
ClientReturn(t, o) ==
    /\ ~Crashed
    /\ wpc[t] = "incall"
    /\ o \in ClientOutcomes(ctx)
    /\ LET resp == IF o.status = 0 THEN NilResp
                   ELSE [status |-> o.status, attempt |-> calls[t]]
           to == AfterAttempt(wi[t], retry, resp)
       IN /\ wresp' = [wresp EXCEPT ![t] = resp]
          /\ werr' = [werr EXCEPT ![t] = o.err]
          /\ hist' = [hist EXCEPT ![t] = Append(@, o)]
          /\ closes' = [closes EXCEPT ![t] =
                          Append(@, IF CloseBeforeRetry(wi[t], retry, resp) THEN 1 ELSE 0)]
          /\ reqBody' = [reqBody EXCEPT ![t] =
                          IF to = "next" THEN NextBody(bodyKind, @, wi[t]) ELSE @]
          /\ wpc' = [wpc EXCEPT ![t] = IF to = "next" THEN "loop" ELSE to]
          /\ wi' = [wi EXCEPT ![t] = IF to = "next" THEN @ + 1 ELSE @]
          /\ result' = [result EXCEPT ![t] =
                          IF to = "post" THEN [req |-> t, resp |-> NilResp, err |-> o.err]
                          ELSE @]
    /\ UNCHANGED <<iterVars, batchVars, collabVars, cfgVars, ctx, done, doIdx, calls, sleeps, bodyUsed, posted, reducerVars>>

\* lines 177-183 then the loop's i++: the fixed backoff after a 429
Sleep(t) ==
    /\ ~Crashed
    /\ wpc[t] = "sleep"
    /\ sleeps' = [sleeps EXCEPT ![t] = @ + 1]
    /\ wi' = [wi EXCEPT ![t] = @ + 1]
    /\ wpc' = [wpc EXCEPT ![t] = "loop"]
    /\ reqBody' = [reqBody EXCEPT ![t] = NextBody(bodyKind, @, wi[t])]
    /\ UNCHANGED <<iterVars, batchVars, collabVars, cfgVars, ctx, done, doIdx, calls, hist, closes, bodyUsed, wresp, werr,
                   result, posted, reducerVars>>

\* line 189 with lines 190-199: the Result of the worker; a failed read of the
\* body replaces the error
MakeResult(t, resp, err, readFailed) ==
    [req |-> t, resp |-> resp, err |-> IF readFailed THEN "read" ELSE err]

\* lines 189-199: ioutil.ReadAll(resp.Body) succeeds, and the body is closed
\* at line 196, or fails, and line 194 only records the error
ReadBody(t, readFailed) ==
    /\ ~Crashed
    /\ wpc[t] = "read"
    /\ result' = [result EXCEPT ![t] = MakeResult(t, wresp[t], werr[t], readFailed)]
    /\ wpc' = [wpc EXCEPT ![t] = "post"]
    /\ closes' = [closes EXCEPT ![t] =
                    [@ EXCEPT ![Len(@)] = IF readFailed THEN @ ELSE @ + 1]]
    /\ UNCHANGED <<iterVars, batchVars, collabVars, cfgVars, ctx, done, doIdx, wi, calls, sleeps, hist, reqBody, bodyUsed,
                   wresp, werr, posted, reducerVars>>

\* lines 200-206: r.done <- result, blocking while the channel is full; then
\* wg.Done() lets httpDo return and both goroutines end
Post(t) ==
    /\ ~Crashed
    /\ wpc[t] = "post"
    /\ Len(done) < ChanCap(qty)
    /\ done' = Append(done, result[t])
    /\ posted' = [posted EXCEPT ![t] = @ + 1]
    /\ wpc' = [wpc EXCEPT ![t] = "exit"]
    /\ UNCHANGED <<iterVars, batchVars, collabVars, cfgVars, ctx, doIdx, wi, calls, sleeps, hist, closes, reqBody, bodyUsed, wresp, werr, result,
                   reducerVars>>

\* ---- Resty.Wait and Resty.First: the reducers, lines 211-305 ----

\* lines 219-225 and 265-271: the caller, holding the *Resty that Do returned,
\* calls reducer k; with no urls it returns the empty errs at once
CallReducerNoZeroCheck(k) ==
    /\ ~Crashed
    /\ rpc = "idle"
    /\ DoReturned
    /\ rkind' = k
    /\ errs' = <<>>
    /\ ndone' = 0
    /\ IF FALSE
       THEN /\ ret' = Slice(<<>>)
            /\ retPath' = "zero"
            /\ rpc' = "defer"
       ELSE /\ rpc' = "select"
            /\ UNCHANGED <<ret, retPath>>
    /\ UNCHANGED <<iterVars, batchVars, collabVars, cfgVars, ctx, done, doIdx, workerVars, posted, cur, consumed,
                   redCancels, hdlCancels>>

CallReducer(k) ==
    /\ ~Crashed
    /\ rpc = "idle"
    /\ DoReturned
    /\ rkind' = k
    /\ errs' = <<>>
    /\ ndone' = 0
    /\ IF qty = 0
       THEN /\ ret' = Slice(<<>>)
            /\ retPath' = "zero"
            /\ rpc' = "defer"
       ELSE /\ rpc' = "select"
            /\ UNCHANGED <<ret, retPath>>
    /\ UNCHANGED <<iterVars, batchVars, collabVars, cfgVars, ctx, done, doIdx, workerVars, posted, cur, consumed,
                   redCancels, hdlCancels>>

CallWait == CallReducer("Wait")

CallFirst == CallReducer("First")

\* lines 229-230 and 275-276: case <-r.ctx.Done(): return errs
SelectCtxDoneEmpty(k) ==
    /\ ~Crashed
    /\ rkind = k /\ rpc = "select"
    /\ ctx = "done"
    /\ ret' = Slice(<<>>)
    /\ retPath' = "ctx"
    /\ rpc' = "defer"
    /\ UNCHANGED <<iterVars, batchVars, collabVars, cfgVars, ctx, done, doIdx, workerVars, posted, rkind, errs,
                   ndone, cur, consumed, redCancels, hdlCancels>>

SelectCtxDone(k) ==
    /\ ~Crashed
    /\ rkind = k /\ rpc = "select"
    /\ ctx = "done"
    /\ ret' = Slice(errs)
    /\ retPath' = "ctx"
    /\ rpc' = "defer"
    /\ UNCHANGED <<iterVars, batchVars, collabVars, cfgVars, ctx, done, doIdx, workerVars, posted, rkind, errs, ndone,
                   cur, consumed, redCancels, hdlCancels>>

WaitCtxDone == SelectCtxDone("Wait")

FirstCtxDone == SelectCtxDone("First")

\* lines 232 and 278: case result := <-r.done
SelectRecvPeeks(k) ==
    /\ ~Crashed
    /\ rkind = k /\ rpc = "select"
    /\ Len(done) > 0
    /\ cur' = Head(done)
    /\ done' = done
    /\ rpc' = "handle"
    /\ UNCHANGED <<iterVars, batchVars, collabVars, cfgVars, ctx, doIdx, workerVars, posted, rkind, errs, ndone,
                   consumed, ret, retPath, redCancels, hdlCancels>>

SelectRecv(k) ==
    /\ ~Crashed
    /\ rkind = k /\ rpc = "select"
    /\ Len(done) > 0
    /\ cur' = Head(done)
    /\ done' = Tail(done)
    /\ rpc' = "handle"
    /\ UNCHANGED <<iterVars, batchVars, collabVars, cfgVars, ctx, doIdx, workerVars, posted, rkind, errs, ndone,
                   consumed, ret, retPath, redCancels, hdlCancels>>

WaitRecv == SelectRecv("Wait")

FirstRecv == SelectRecv("First")

\* what the handler may do with a Result: r.handle is the caller's function,
\* which returns an error or nil and may invoke the cancelFunc it is given;
\* without a handler the Result is a failure iff its Err is non-nil
HandlerChoicesByStatus(res) ==
    IF hasHandle
    THEN {[rejected |-> rj, cancels |-> c, err |-> "handler"] : rj \in BOOLEAN, c \in BOOLEAN}
    ELSE {[rejected |-> res.err # Nil \/ ~IsSuccess(res.resp), cancels |-> FALSE,
           err |-> res.err]}

HandlerChoices(res) ==
    IF hasHandle
    THEN {[rejected |-> rj, cancels |-> c, err |-> "handler"] : rj \in BOOLEAN, c \in BOOLEAN}
    ELSE {[rejected |-> res.err # Nil, cancels |-> FALSE, err |-> res.err]}

\* line 105: r.cancelFunc is the CancelFunc of context.WithCancel; calling it
\* leaves the context done, whether or not it was done before
CancelFuncToggles(c) == IF c = "done" THEN "active" ELSE "done"
CancelFunc(c) == "done"

\* the context and the cancel count after a handler invocation
HandlerEffect(h) ==
    /\ ctx' = IF h.cancels THEN CancelFunc(ctx) ELSE ctx
    /\ hdlCancels' = IF h.cancels THEN hdlCancels + 1 ELSE hdlCancels

\* lines 247-251 and 298-302: done++, return errs when done >= r.qty
CountNeverReturns(n, q) == FALSE
CountOffByOne(n, q) == n + 1 >= q - 1
CountDone(n, q) == n + 1 >= q

\* lines 234-251: Wait handles the received Result
WaitHandleDropsErr(h) ==
    /\ ~Crashed
    /\ rkind = "Wait" /\ rpc = "handle"
    /\ h \in HandlerChoices(cur)
    /\ HandlerEffect(h)
    /\ consumed' = Append(consumed, [res |-> cur, rejected |-> h.rejected])
    /\ ndone' = ndone + 1
    /\ errs' = errs
    /\ IF CountDone(ndone, qty)
       THEN /\ ret' = Slice(errs)
            /\ retPath' = "all"
            /\ rpc' = "defer"
       ELSE /\ rpc' = "select"
            /\ UNCHANGED <<ret, retPath>>
    /\ UNCHANGED <<iterVars, batchVars, collabVars, cfgVars, done, doIdx, workerVars, posted, rkind, cur, redCancels>>

WaitHandle(h) ==
    /\ ~Crashed
    /\ rkind = "Wait" /\ rpc = "handle"
    /\ h \in HandlerChoices(cur)
    /\ HandlerEffect(h)
    /\ consumed' = Append(consumed, [res |-> cur, rejected |-> h.rejected])
    /\ ndone' = ndone + 1
    /\ LET es == IF h.rejected
                 THEN Append(errs, [req |-> cur.req, err |-> h.err])
                 ELSE errs
       IN /\ errs' = es
          /\ IF CountDone(ndone, qty)
             THEN /\ ret' = Slice(es)
                  /\ retPath' = "all"
                  /\ rpc' = "defer"
             ELSE /\ rpc' = "select"
                  /\ UNCHANGED <<ret, retPath>>
    /\ UNCHANGED <<iterVars, batchVars, collabVars, cfgVars, done, doIdx, workerVars, posted, rkind, cur, redCancels>>

\* lines 280-302: First handles the received Result; an accepted one returns nil
FirstHandleKeepsGoing(h) ==
    /\ ~Crashed
    /\ rkind = "First" /\ rpc = "handle"
    /\ h \in HandlerChoices(cur)
    /\ HandlerEffect(h)
    /\ consumed' = Append(consumed, [res |-> cur, rejected |-> h.rejected])
    /\ ndone' = ndone + 1
    /\ LET es == IF h.rejected
                 THEN Append(errs, [req |-> cur.req, err |-> h.err])
                 ELSE errs
       IN /\ errs' = es
          /\ IF CountDone(ndone, qty)
             THEN /\ ret' = IF h.rejected THEN Slice(es) ELSE NilSlice
                  /\ retPath' = IF h.rejected THEN "all" ELSE "first"
                  /\ rpc' = "defer"
             ELSE /\ rpc' = "select"
                  /\ UNCHANGED <<ret, retPath>>
    /\ UNCHANGED <<iterVars, batchVars, collabVars, cfgVars, done, doIdx, workerVars, posted, rkind, cur, redCancels>>

FirstHandleErrsOnAccept(h) ==
    /\ ~Crashed
    /\ rkind = "First" /\ rpc = "handle"
    /\ h \in HandlerChoices(cur)
    /\ HandlerEffect(h)
    /\ consumed' = Append(consumed, [res |-> cur, rejected |-> h.rejected])
    /\ IF h.rejected
       THEN /\ errs' = Append(errs, [req |-> cur.req, err |-> h.err])
            /\ ndone' = ndone + 1
            /\ IF CountDone(ndone, qty)
               THEN /\ ret' = Slice(Append(errs, [req |-> cur.req, err |-> h.err]))
                    /\ retPath' = "all"
                    /\ rpc' = "defer"
               ELSE /\ rpc' = "select"
                    /\ UNCHANGED <<ret, retPath>>
       ELSE /\ ret' = Slice(errs)
            /\ retPath' = "first"
            /\ rpc' = "defer"
            /\ UNCHANGED <<errs, ndone>>
    /\ UNCHANGED <<iterVars, batchVars, collabVars, cfgVars, done, doIdx, workerVars, posted, rkind, cur, redCancels>>

FirstHandleDropsErr(h) ==
    /\ ~Crashed
    /\ rkind = "First" /\ rpc = "handle"
    /\ h \in HandlerChoices(cur)
    /\ HandlerEffect(h)
    /\ consumed' = Append(consumed, [res |-> cur, rejected |-> h.rejected])
    /\ IF h.rejected
       THEN /\ errs' = errs
            /\ ndone' = ndone + 1
            /\ IF CountDone(ndone, qty)
               THEN /\ ret' = Slice(errs)
                    /\ retPath' = "all"
                    /\ rpc' = "defer"
               ELSE /\ rpc' = "select"
                    /\ UNCHANGED <<ret, retPath>>
       ELSE /\ ret' = NilSlice
            /\ retPath' = "first"
            /\ rpc' = "defer"
            /\ UNCHANGED <<errs, ndone>>
    /\ UNCHANGED <<iterVars, batchVars, collabVars, cfgVars, done, doIdx, workerVars, posted, rkind, cur, redCancels>>

FirstHandle(h) ==
    /\ ~Crashed
    /\ rkind = "First" /\ rpc = "handle"
    /\ h \in HandlerChoices(cur)
    /\ HandlerEffect(h)
    /\ consumed' = Append(consumed, [res |-> cur, rejected |-> h.rejected])
    /\ IF h.rejected
       THEN /\ errs' = Append(errs, [req |-> cur.req, err |-> h.err])
            /\ ndone' = ndone + 1
            /\ IF CountDone(ndone, qty)
               THEN /\ ret' = Slice(Append(errs, [req |-> cur.req, err |-> h.err]))
                    /\ retPath' = "all"
                    /\ rpc' = "defer"
               ELSE /\ rpc' = "select"
                    /\ UNCHANGED <<ret, retPath>>
       ELSE /\ ret' = NilSlice
            /\ retPath' = "first"
            /\ rpc' = "defer"
            /\ UNCHANGED <<errs, ndone>>
    /\ UNCHANGED <<iterVars, batchVars, collabVars, cfgVars, done, doIdx, workerVars, posted, rkind, cur, redCancels>>

\* lines 212-217 and 258-263: the deferred function; r.cancelFunc is non-nil
\* after Do, so it is invoked, and the reducer returns
DeferredSkipsOnCtx ==
    /\ ~Crashed
    /\ rpc = "defer"
    /\ ctx' = IF retPath = "ctx" THEN ctx ELSE "done"
    /\ redCancels' = IF retPath = "ctx" THEN redCancels ELSE redCancels + 1
    /\ rpc' = "returned"
    /\ UNCHANGED <<iterVars, batchVars, collabVars, cfgVars, done, doIdx, workerVars, posted, rkind, errs, ndone, cur,
                   consumed, ret, retPath, hdlCancels>>

DeferredNeedsActive ==
    /\ ~Crashed
    /\ rpc = "defer"
    /\ ctx = "active"
    /\ ctx' = CancelFunc(ctx)
    /\ redCancels' = redCancels + 1
    /\ rpc' = "returned"
    /\ UNCHANGED <<iterVars, batchVars, collabVars, cfgVars, done, doIdx, workerVars, posted, rkind, errs, ndone,
                   cur, consumed, ret, retPath, hdlCancels>>

Deferred ==
    /\ ~Crashed
    /\ rpc = "defer"
    /\ ctx' = CancelFunc(ctx)
    /\ redCancels' = redCancels + 1
    /\ rpc' = "returned"
    /\ UNCHANGED <<iterVars, batchVars, collabVars, cfgVars, done, doIdx, workerVars, posted, rkind, errs, ndone, cur,
                   consumed, ret, retPath, hdlCancels>>

\* ---- the environment ----

\* line 105: r.ctx is derived from the caller's ctx, which the caller cancels
\* or whose deadline passes
CtxCancel ==
    /\ ~Crashed
    /\ ctx = "active"
    /\ ctx' = "done"
    /\ UNCHANGED <<iterVars, batchVars, collabVars, cfgVars, done, doIdx, workerVars, posted, reducerVars>>

\* ---- CollaboratorRequest: the replicated collaborator operations ----
\* (src/zboxcore/sdk/collaboratorworker.go)

restyVars == <<cfgVars, ctx, done, doIdx, workerVars, posted, reducerVars>>

Ops == {"Update", "Remove"}

\* no collaborator operation is in progress
CollabInitWith(M, T) ==
    /\ numList \in M
    /\ thresh \in T
    /\ consensus = 0
    /\ cop = "none"
    /\ cpc = "idle"
    /\ ci = 0
    /\ wg = 0
    /\ rspCh = <<>>
    /\ bpc = [b \in Replicas |-> "idle"]
    /\ accepted = [b \in Replicas |-> "none"]
    /\ verdict = FALSE

\* what zboxutil.HttpDo hands to the handler: a response with a status, or an
\* error of the transport or of the 30 s / DefaultUploadTimeOut deadline
HttpOutcomes ==
    {[status |-> StatusOK, err |-> Nil], [status |-> 500, err |-> Nil],
     [status |-> 0, err |-> "transport"], [status |-> 0, err |-> "timeout"]}

\* lines 62-73 and 118-128: the boolean the handler sends on rspCh
HandlerVerdictAnyStatus(o) == o.err = Nil
HandlerVerdict(o) ==
    IF o.err # Nil THEN FALSE ELSE o.status = StatusOK

\* Consensus.Done: one more replica accepted
ConsensusDone(c) == c + 1

\* Consensus.isConsensusOk: the count has reached the threshold
isConsensusOk(c, t) == c >= t

\* line 29 and line 88: make(chan bool, numList)
RspChUnbuffered(n) == 0
RspChCap(n) == n

\* line 33 and line 90: req.wg.Wait() returns when the counter is zero
WgWaitSkipped(n) == TRUE
WgWaitReturns(n) == n = 0

\* lines 26-32: wg.Add(numList), make(chan bool, numList), one goroutine per
\* blobber
CollabCall(op) ==
    /\ cpc = "idle"
    /\ cop' = op
    /\ wg' = numList
    /\ rspCh' = <<>>
    /\ bpc' = [b \in Replicas |-> IF b <= numList THEN "start" ELSE "idle"]
    /\ cpc' = "join"
    /\ UNCHANGED <<iterVars, batchVars, restyVars, numList, thresh, consensus, ci, accepted, verdict>>

UpdateCollaboratorToBlobbers == CollabCall("Update")
RemoveCollaboratorFromBlobbers == CollabCall("Remove")

\* lines 45 and 52-57: the request cannot be built; the worker returns without
\* sending on rspCh and its deferred req.wg.Done() runs
WorkerBuildFail(op, b) ==
    /\ cop = op /\ bpc[b] = "start"
    /\ bpc' = [bpc EXCEPT ![b] = "done"]
    /\ accepted' = [accepted EXCEPT ![b] = "unbuilt"]
    /\ wg' = wg - 1
    /\ UNCHANGED <<iterVars, batchVars, restyVars, numList, thresh, consensus, cop, cpc, ci, rspCh, verdict>>

\* lines 52-60: the request is built and the deadline context created
WorkerBuild(op, b) ==
    /\ cop = op /\ bpc[b] = "start"
    /\ bpc' = [bpc EXCEPT ![b] = "http"]
    /\ UNCHANGED <<iterVars, batchVars, restyVars, numList, thresh, consensus, cop, cpc, ci, wg, rspCh,
                   accepted, verdict>>

\* lines 61-75: zboxutil.HttpDo runs the request and calls the handler once
\* with its outcome o; the handler sends one boolean on rspCh
WorkerHttpDo(op, b, o) ==
    /\ cop = op /\ bpc[b] = "http"
    /\ Len(rspCh) < RspChCap(numList)
    /\ rspCh' = Append(rspCh, HandlerVerdict(o))
    /\ accepted' = [accepted EXCEPT ![b] =
                      IF o.err = Nil /\ o.status = 200 THEN "yes" ELSE "no"]
    /\ bpc' = [bpc EXCEPT ![b] = "sent"]
    /\ UNCHANGED <<iterVars, batchVars, restyVars, numList, thresh, consensus, cop, cpc, ci, wg, verdict>>

\* lines 45 and 77-80: the worker returns and its deferred req.wg.Done() runs
WorkerReturn(op, b) ==
    /\ cop = op /\ bpc[b] = "sent"
    /\ bpc' = [bpc EXCEPT ![b] = "done"]
    /\ wg' = wg - 1
    /\ UNCHANGED <<iterVars, batchVars, restyVars, numList, thresh, consensus, cop, cpc, ci, rspCh,
                   accepted, verdict>>

\* updateCollaboratorToBlobber, lines 43-80
UpdateBuildFail(b) == WorkerBuildFail("Update", b)
UpdateBuild(b) == WorkerBuild("Update", b)
UpdateHttpDo(b, o) == WorkerHttpDo("Update", b, o)
UpdateReturn(b) == WorkerReturn("Update", b)

\* removeCollaboratorFromBlobber, lines 100-132
RemoveBuildFail(b) == WorkerBuildFail("Remove", b)
RemoveBuild(b) == WorkerBuild("Remove", b)
RemoveHttpDo(b, o) == WorkerHttpDo("Remove", b, o)
RemoveReturn(b) == WorkerReturn("Remove", b)

\* line 33 and line 90: req.wg.Wait()
JoinWorkers ==
    /\ cpc = "join"
    /\ WgWaitReturns(wg)
    /\ cpc' = "collect"
    /\ ci' = 0
    /\ UNCHANGED <<iterVars, batchVars, restyVars, numList, thresh, consensus, cop, wg, rspCh, bpc,
                   accepted, verdict>>

\* lines 34-39 and 91-96: one iteration of the receive loop; resp := <-rspCh
\* blocks while the channel is empty
CollectResponse ==
    /\ cpc = "collect" /\ ci < numList
    /\ rspCh # <<>>
    /\ consensus' = IF Head(rspCh) THEN ConsensusDone(consensus) ELSE consensus
    /\ rspCh' = Tail(rspCh)
    /\ ci' = ci + 1
    /\ UNCHANGED <<iterVars, batchVars, restyVars, numList, thresh, cop, cpc, wg, bpc, accepted, verdict>>

\* line 40 and line 97: return req.consensus.isConsensusOk()
ReturnVerdict ==
    /\ cpc = "collect" /\ ci >= numList
    /\ verdict' = isConsensusOk(consensus, thresh)
    /\ cpc' = "returned"
    /\ UNCHANGED <<iterVars, batchVars, restyVars, numList, thresh, consensus, cop, ci, wg, rspCh, bpc, accepted>>

NextCollab ==
    \/ UpdateCollaboratorToBlobbers
    \/ RemoveCollaboratorFromBlobbers
    \/ \E b \in Replicas : UpdateBuildFail(b)
    \/ \E b \in Replicas : UpdateBuild(b)
    \/ \E b \in Replicas, o \in HttpOutcomes : UpdateHttpDo(b, o)
    \/ \E b \in Replicas : UpdateReturn(b)
    \/ \E b \in Replicas : RemoveBuildFail(b)
    \/ \E b \in Replicas : RemoveBuild(b)
    \/ \E b \in Replicas, o \in HttpOutcomes : RemoveHttpDo(b, o)
    \/ \E b \in Replicas : RemoveReturn(b)
    \/ JoinWorkers
    \/ CollectResponse
    \/ ReturnVerdict

\* lines 26-32 and 83-89, called again on the same CollaboratorRequest after
\* a call that returned false: the function sets wg and rspCh anew and leaves
\* req.consensus as the earlier call left it (nothing in lines 25-41 or 82-98
\* resets the count); accepted starts anew to record the reports of this call
CollabCallAgain(op) ==
    /\ cpc = "returned" /\ ~verdict
    /\ cop' = op
    /\ wg' = numList
    /\ rspCh' = <<>>
    /\ bpc' = [b \in Replicas |-> IF b <= numList THEN "start" ELSE "idle"]
    /\ accepted' = [b \in Replicas |-> "none"]
    /\ cpc' = "join"
    /\ UNCHANGED <<iterVars, batchVars, restyVars, numList, thresh, consensus, ci, verdict>>

UpdateAgain == CollabCallAgain("Update")
RemoveAgain == CollabCallAgain("Remove")

NextRepeat ==
    \/ NextCollab
    \/ UpdateAgain
    \/ RemoveAgain

\* ---- Do called again on the same Resty ----

\* the batch of the first Do on a Resty and the batch of the second
Batches == {"earlier", "new"}

\* Do has not been called
BatchInit ==
    /\ rDone = "none"
    /\ rQty = 0
    /\ chan = [b \in Batches |-> <<>>]
    /\ chanCap = [b \in Batches |-> 0]
    /\ hpc = [p \in Batches \X Targets |-> "none"]
    /\ xbatch = "none" /\ xpc = "idle" /\ xdone = 0 /\ xgot = <<>>

\* lines 105-135: Do on n urls whose requests all build; it overwrites r.qty
\* and r.done (lines 107-108) and starts one httpDo goroutine per url.  The
\* caller is one goroutine: it calls Do when no call of Wait is running.
DoOnResty(n) ==
    /\ rDone # "new" /\ xpc # "select"
    /\ LET b == IF rDone = "none" THEN "earlier" ELSE "new"
       IN /\ rDone' = b
          /\ rQty' = n
          /\ chan' = [chan EXCEPT ![b] = <<>>]
          /\ chanCap' = [chanCap EXCEPT ![b] = n]
          /\ hpc' = [p \in Batches \X Targets |->
                        IF p[1] = b /\ p[2] <= n THEN "call" ELSE hpc[p]]
    /\ UNCHANGED <<iterVars, restyVars, collabVars, xbatch, xpc, xdone, xgot>>

\* lines 145-199: the goroutine makes its client calls and builds its Result
HttpDoCall(b, t) ==
    /\ hpc[<<b, t>>] = "call"
    /\ hpc' = [hpc EXCEPT ![<<b, t>>] = "send"]
    /\ UNCHANGED <<iterVars, restyVars, collabVars, rDone, rQty, chan, chanCap, xbatch, xpc, xdone, xgot>>

\* line 200 reads the field r.done when it sends.  A goroutine of the current
\* batch was started after the write of line 108 and reads that channel; for
\* a goroutine of the earlier batch the read is not ordered with the second
\* Do's write, so it finds the channel of its own batch or the new one.
DoneRead(b) == IF b = rDone THEN {rDone} ELSE {b, rDone}

\* line 200: r.done <- result, on the channel c the goroutine read from r.done
HttpDoSend(b, t, c) ==
    /\ hpc[<<b, t>>] = "send"
    /\ c \in DoneRead(b)
    /\ Len(chan[c]) < chanCap[c]
    /\ chan' = [chan EXCEPT ![c] = Append(chan[c], [batch |-> b, target |-> t])]
    /\ hpc' = [hpc EXCEPT ![<<b, t>>] = "exit"]
    /\ UNCHANGED <<iterVars, restyVars, collabVars, rDone, rQty, chanCap, xbatch, xpc, xdone, xgot>>

\* lines 219-225: Wait called once after a Do, with no handler and the batch
\* context not done
BatchWaitCall ==
    /\ rDone # "none" /\ xbatch # rDone /\ xpc # "select"
    /\ xbatch' = rDone
    /\ xdone' = 0
    /\ xgot' = <<>>
    /\ xpc' = IF rQty = 0 THEN "returned" ELSE "select"
    /\ UNCHANGED <<iterVars, restyVars, collabVars, rDone, rQty, chan, chanCap, hpc>>

\* lines 232-251: Wait receives one Result from r.done, counts it and returns
\* when done >= r.qty
BatchWaitRecv ==
    /\ xpc = "select"
    /\ chan[rDone] # <<>>
    /\ xgot' = Append(xgot, Head(chan[rDone]))
    /\ chan' = [chan EXCEPT ![rDone] = Tail(chan[rDone])]
    /\ xdone' = xdone + 1
    /\ xpc' = IF CountDone(xdone, rQty) THEN "returned" ELSE "select"
    /\ UNCHANGED <<iterVars, restyVars, collabVars, rDone, rQty, chanCap, hpc, xbatch>>

NextBatches ==
    \/ \E n \in 0..MaxTargets : DoOnResty(n)
    \/ \E b \in Batches, t \in Targets : HttpDoCall(b, t)
    \/ \E b \in Batches, t \in Targets, c \in Batches : HttpDoSend(b, t, c)
    \/ BatchWaitCall
    \/ BatchWaitRecv

\* ---- AuthorizersOwnershipTransferredIterator ----

\* a log of the subscription: its place in the delivery order, and whether
\* contract.UnpackLog fails on it
Logs == [id : 1..MaxLogs, bad : BOOLEAN]

\* Next has not been called
NoReturn == [value |-> FALSE, by |-> "none"]

\* line 580: the iterator FilterOwnershipTransferred returns: done false, fail
\* nil, no Event, the subscription started
IterInit ==
    /\ itLogs = <<>>
    /\ subErr = "open"
    /\ produced = 0
    /\ itDone = FALSE
    /\ itFail = Nil
    /\ itEvent = 0
    /\ npc = "idle"
    /\ nret = NoReturn
    /\ delivered = <<>>

\* the subscription sends its next log on it.logs
SubLog(bad) ==
    /\ subErr = "open" /\ produced < MaxLogs
    /\ produced' = produced + 1
    /\ itLogs' = Append(itLogs, [id |-> produced + 1, bad |-> bad])
    /\ UNCHANGED <<restyVars, collabVars, batchVars, subErr, itDone, itFail, itEvent,
                   npc, nret, delivered>>

\* the subscription ends: nil on it.sub.Err() when it completed, else the
\* retrieval error
SubEnd(e) ==
    /\ subErr = "open"
    /\ subErr' = e
    /\ UNCHANGED <<restyVars, collabVars, batchVars, itLogs, produced, itDone, itFail,
                   itEvent, npc, nret, delivered>>

\* lines 549-553: Close unsubscribes; the subscription sends no more and its
\* error channel is closed
IterClose ==
    /\ npc = "idle"
    /\ subErr = "open"
    /\ subErr' = "closed"
    /\ UNCHANGED <<restyVars, collabVars, batchVars, itLogs, produced, itDone, itFail,
                   itEvent, npc, nret, delivered>>

\* line 504: the caller calls Next
IterNextCall ==
    /\ npc = "idle"
    /\ npc' = "entered"
    /\ UNCHANGED <<restyVars, collabVars, batchVars, itLogs, subErr, produced, itDone,
                   itFail, itEvent, nret, delivered>>

\* lines 505-508: the iterator failed, Next returns false
IterNextFailed ==
    /\ npc = "entered"
    /\ itFail # Nil
    /\ nret' = [value |-> FALSE, by |-> "failed"]
    /\ npc' = "idle"
    /\ UNCHANGED <<restyVars, collabVars, batchVars, itLogs, subErr, produced, itDone,
                   itFail, itEvent, delivered>>

\* lines 512-519 and 527-534: case log := <-it.logs; UnpackLog fails and Next
\* returns false with it.fail set, or the log becomes it.Event and Next
\* returns true
Unpack(log) ==
    /\ itEvent' = log.id
    /\ IF log.bad
       THEN /\ itFail' = "parsing"
            /\ nret' = [value |-> FALSE, by |-> "parsing"]
            /\ delivered' = delivered
       ELSE /\ itFail' = itFail
            /\ nret' = [value |-> TRUE, by |-> "log"]
            /\ delivered' = Append(delivered, log.id)

\* lines 510-519: the iterator completed and a log is available
IterNextDoneRecv ==
    /\ npc = "entered"
    /\ itFail = Nil /\ itDone
    /\ itLogs # <<>>
    /\ Unpack(Head(itLogs))
    /\ itLogs' = Tail(itLogs)
    /\ npc' = "idle"
    /\ UNCHANGED <<restyVars, collabVars, batchVars, subErr, produced, itDone>>

\* lines 510-511 and 521-523: the iterator completed and no log is available:
\* the default case returns false
IterNextDoneEmptyAlways ==
    /\ npc = "entered"
    /\ itFail = Nil /\ itDone
    /\ nret' = [value |-> FALSE, by |-> "empty"]
    /\ npc' = "idle"
    /\ UNCHANGED <<restyVars, collabVars, batchVars, itLogs, subErr, produced, itDone,
                   itFail, itEvent, delivered>>

IterNextDoneEmpty ==
    /\ npc = "entered"
    /\ itFail = Nil /\ itDone
    /\ itLogs = <<>>
    /\ nret' = [value |-> FALSE, by |-> "empty"]
    /\ npc' = "idle"
    /\ UNCHANGED <<restyVars, collabVars, batchVars, itLogs, subErr, produced, itDone,
                   itFail, itEvent, delivered>>

\* lines 526-534: still in progress, the select receives a log
IterNextRecv ==
    /\ npc = "entered"
    /\ itFail = Nil /\ ~itDone
    /\ itLogs # <<>>
    /\ Unpack(Head(itLogs))
    /\ itLogs' = Tail(itLogs)
    /\ npc' = "idle"
    /\ UNCHANGED <<restyVars, collabVars, batchVars, subErr, produced, itDone>>

\* lines 536-539: what the select's other case stores in it.fail
FailOfDropsErr(e) == Nil
FailOf(e) == IF e \in {"nil", "closed"} THEN Nil ELSE e

\* lines 536-540: still in progress, the select receives from it.sub.Err():
\* done and fail are set and Next calls itself, which starts again at line 505.
\* The channel is closed once its value is taken, and a closed channel gives nil.
IterNextSubErr ==
    /\ npc = "entered"
    /\ itFail = Nil /\ ~itDone
    /\ subErr # "open"
    /\ itDone' = TRUE
    /\ itFail' = FailOf(subErr)
    /\ subErr' = "closed"
    /\ UNCHANGED <<restyVars, collabVars, batchVars, itLogs, produced, itEvent, npc,
                   nret, delivered>>

\* lines 543-546: Error()
Error == itFail

NextIter ==
    \/ \E bad \in BOOLEAN : SubLog(bad)
    \/ \E e \in {"nil", "retrieval"} : SubEnd(e)
    \/ IterClose
    \/ IterNextCall
    \/ IterNextFailed
    \/ IterNextDoneRecv
    \/ IterNextDoneEmpty
    \/ IterNextRecv
    \/ IterNextSubErr

\* ---- specifications ----

Next ==
    \/ \E t \in Targets : DoBuildFail(t)
    \/ \E t \in Targets : DoInterceptFail(t)
    \/ \E t \in Targets : DoDispatch(t)
    \/ \E t \in Targets : ClientCall(t)
    \/ \E t \in Targets : \E o \in ClientOutcomes(ctx) : ClientReturn(t, o)
    \/ \E t \in Targets : Sleep(t)
    \/ \E t \in Targets : \E rf \in BOOLEAN : ReadBody(t, rf)
    \/ \E t \in Targets : Post(t)
    \/ CallWait
    \/ CallFirst
    \/ WaitCtxDone
    \/ FirstCtxDone
    \/ WaitRecv
    \/ FirstRecv
    \/ \E h \in HandlerChoices(cur) : WaitHandle(h)
    \/ \E h \in HandlerChoices(cur) : FirstHandle(h)
    \/ Deferred
    \/ CtxCancel

\* a batch of up to MaxTargets urls with a retry limit up to MaxRetry (0 for
\* no retry loop) that needs at most MaxCalls client calls, on a client
\* answering 200, 429 or an error; with a retry limit below 2 the worker
\* makes one call and goes to line 189 whatever the status (lines 163, 174,
\* 186), so there the client answers 200 or an error
Init ==
    /\ InitWith(0..MaxTargets, 0..MaxRetry, BOOLEAN,
                {{StatusOK}, {StatusOK, StatusTooManyRequests}}, {"cloneable"})
    /\ qty * retry <= MaxCalls
    /\ codes = IF retry < 2 THEN {StatusOK} ELSE {StatusOK, StatusTooManyRequests}
    /\ CollabInitWith({0}, {0})
    /\ BatchInit
    /\ IterInit

Spec == Init /\ [][Next]_vars

\* a batch of one url with a retry limit up to MaxRetry, negative and zero
\* (no retry loop) included, on a client answering any status or an error
InitRetry ==
    /\ InitWith({1}, (-1)..MaxRetry, BOOLEAN, {AllStatuses},
                {"none", "cloneable", "plain"})
    /\ CollabInitWith({0}, {0})
    /\ BatchInit
    /\ IterInit

SpecRetry == InitRetry /\ [][Next]_vars

\* the scheduling the claims about progress assume: Do runs its loop to the
\* end, every goroutine that can take a step eventually takes it, every client
\* call returns and the handler returns; the caller need not call a reducer
\* and the caller's context need not ever be cancelled
Fairness ==
    /\ \A t \in Targets :
        /\ WF_vars(DoBuildFail(t) \/ DoInterceptFail(t) \/ DoDispatch(t))
        /\ WF_vars(ClientCall(t))
        /\ WF_vars(\E o \in ClientOutcomes(ctx) : ClientReturn(t, o))
        /\ WF_vars(Sleep(t))
        /\ WF_vars(\E rf \in BOOLEAN : ReadBody(t, rf))
        /\ WF_vars(Post(t))
    /\ WF_vars(WaitCtxDone \/ WaitRecv \/ (\E h \in HandlerChoices(cur) : WaitHandle(h)))
    /\ WF_vars(FirstCtxDone \/ FirstRecv \/ (\E h \in HandlerChoices(cur) : FirstHandle(h)))
    /\ WF_vars(Deferred)

\* a batch of up to MaxTargets urls with a retry loop of two attempts or none
\* that needs at most MaxCalls client calls, reduced without a handler; the
\* client answers as in Init
InitFair ==
    /\ InitWith(0..MaxTargets, {0, 2}, {FALSE},
                {{StatusOK}, {StatusOK, StatusTooManyRequests}}, {"cloneable"})
    /\ qty * retry <= MaxCalls
    /\ codes = IF retry < 2 THEN {StatusOK} ELSE {StatusOK, StatusTooManyRequests}
    /\ CollabInitWith({0}, {0})
    /\ BatchInit
    /\ IterInit

SpecFair == InitFair /\ [][Next]_vars /\ Fairness

\* a collaborator request over up to MaxReplicas blobbers with any threshold
\* up to MaxReplicas, on which Update or Remove is called once; no resty batch
InitCollab ==
    /\ InitWith({0}, {0}, {FALSE}, {{StatusOK}}, {"none"})
    /\ CollabInitWith(0..MaxReplicas, 0..MaxReplicas)
    /\ BatchInit
    /\ IterInit
SpecCollab == InitCollab /\ [][NextCollab]_vars

\* a CollaboratorRequest on which the caller calls an operation again for as
\* long as the last call returned false
SpecRepeat == InitCollab /\ [][NextRepeat]_vars

\* a Resty on which Do is called up to twice, each time on up to MaxTargets
\* urls, and Wait after a Do
InitBatches ==
    /\ InitWith({0}, {0}, {FALSE}, {{StatusOK}}, {"none"})
    /\ CollabInitWith({0}, {0})
    /\ BatchInit
    /\ IterInit

SpecBatches == InitBatches /\ [][NextBatches]_vars

\* an OwnershipTransferred iterator whose subscription delivers up to MaxLogs
\* logs and then ends
InitIter ==
    /\ InitWith({0}, {0}, {FALSE}, {{StatusOK}}, {"none"})
    /\ CollabInitWith({0}, {0})
    /\ BatchInit
    /\ IterInit

SpecIter == InitIter /\ [][NextIter]_vars

\* ---- claims ----

RECURSIVE SumTo(_, _)
SumTo(f, n) == IF n = 0 THEN 0 ELSE f[n] + SumTo(f, n - 1)

\* number of Results ever sent to r.done for the batch
TotalPosted == SumTo(posted, MaxTargets)

\* the statuses the claims call a success
SuccessStatuses == {200, 201, 202, 204}

\* the attempt at which the client first answered target t with a success
\* status, 0 if it has not
FirstSuccessAt(t) ==
    IF \E k \in 1..Len(hist[t]) : hist[t][k].status \in SuccessStatuses
    THEN CHOOSE k \in 1..Len(hist[t]) :
            /\ hist[t][k].status \in SuccessStatuses
            /\ \A j \in 1..(k - 1) : hist[t][j].status \notin SuccessStatuses
    ELSE 0

\* the errors a reducer has to collect for the Results in its log: the
\* handler's error of each rejected Result or, with no handler, the Result's Err
RECURSIVE FailedErrs(_)
FailedErrs(log) ==
    IF log = <<>> THEN <<>>
    ELSE LET rest == FailedErrs(SubSeq(log, 1, Len(log) - 1))
             last == log[Len(log)]
         IN IF last.rejected
            THEN Append(rest, [req |-> last.res.req,
                               err |-> IF hasHandle THEN "handler" ELSE last.res.err])
            ELSE rest

\* C1: every target has sent at most one Result to the result channel and the
\* batch has sent at most qty Results in all, whether the target failed in Do
\* (request construction, interceptor) or ran in a worker goroutine
C1_AtMostOneOutcomePerTarget ==
    /\ \A t \in Targets : posted[t] <= 1
    /\ \A t \in Targets : t > qty => posted[t] = 0
    /\ TotalPosted <= qty

\* C1 witness: a batch of two whose first target failed in Do and whose second
\* target was retried by its worker, both Results sent
C1_Witness ==
    /\ qty = 2
    /\ wpc[1] = "failed" /\ posted[1] = 1
    /\ wpc[2] = "exit" /\ calls[2] = 2 /\ posted[2] = 1

\* C2: under fair scheduling every dispatched target eventually sends its
\* Result, and a Wait call eventually returns, having consumed all qty
\* Results unless it returned because the batch context was done
C2_AllPostAndWaitReturns ==
    /\ <>(\A t \in Targets : t <= qty => posted[t] = 1)
    /\ (rkind = "Wait") ~> (rpc = "returned" /\ (retPath = "ctx" \/ Len(consumed) = qty))

\* C2 witness: Wait returned after consuming both Results of a batch of two
\* whose context was not done when it returned, one target having been retried
C2_Witness ==
    /\ qty = 2 /\ rkind = "Wait" /\ rpc = "defer" /\ ctx = "active"
    /\ Len(consumed) = 2
    /\ calls[1] = 2

\* C3: when Wait returns without having taken the context-done branch, which
\* is the only way it returns while the context is not done, it has consumed
\* all qty Results and its list holds, in order of consumption, exactly the
\* error of every consumed Result that failed; the list is empty iff none failed
C3_WaitCollectsEveryFailure ==
    (rkind = "Wait" /\ rpc \in {"defer", "returned"}) =>
        /\ (rpc = "defer" /\ ctx = "active") => retPath # "ctx"
        /\ retPath # "ctx" =>
            /\ Len(consumed) = qty
            /\ ret = Slice(FailedErrs(consumed))
            /\ (ret.list = <<>>) <=> (\A k \in 1..Len(consumed) : ~consumed[k].rejected)

\* C3 witness: Wait returns from a batch of two with the context not done,
\* one Result accepted and one failed
C3_Witness ==
    /\ rkind = "Wait" /\ rpc = "defer" /\ ctx = "active" /\ qty = 2
    /\ Len(ret.list) = 1
    /\ \E k \in 1..2 : ~consumed[k].rejected

\* C4: the first accepted Result that First consumes is the last Result it
\* consumes: First is then returning nil, whatever failures it had accumulated
\* and whatever targets are still pending
C4_FirstReturnsNilOnFirstAccepted ==
    rkind = "First" =>
        \A k \in 1..Len(consumed) :
            ~consumed[k].rejected =>
                /\ k = Len(consumed)
                /\ rpc \in {"defer", "returned"}
                /\ ret = NilSlice
                /\ retPath = "first"

\* C4 witness: First has returned nil on the first Result it consumed while
\* the other target of the batch is still in a client call
C4_Witness ==
    /\ rkind = "First" /\ rpc = "returned" /\ ret = NilSlice
    /\ qty = 2 /\ Len(consumed) = 1 /\ ~consumed[1].rejected
    /\ \E t \in Targets : wpc[t] = "incall"

\* C5 as first stated: when Wait or First has returned, exactly qty Results
\* have been sent to the result channel
C5_Original_AllPostedAtReturn ==
    rpc = "returned" => TotalPosted = qty

\* C5 as amended: when Wait or First has returned, at most qty Results have
\* been sent, and exactly qty when it returned after consuming all of them or
\* from a batch of no targets
C5_PostedAtReturn ==
    rpc = "returned" =>
        /\ TotalPosted <= qty
        /\ retPath \in {"all", "zero"} => TotalPosted = qty

\* C5 witness: a reducer has returned after consuming both Results of a batch
\* of two
C5_Witness ==
    /\ rpc = "returned" /\ retPath = "all" /\ qty = 2 /\ TotalPosted = 2

\* C6: a call of Wait or First has invoked the cancel function exactly once
\* when it has returned, by whichever return statement, and not before
C6_ReducerCancelsOnce ==
    /\ rpc = "returned" => redCancels = 1
    /\ rpc # "returned" => redCancels = 0

\* C6 witness: Wait has returned on the context-done branch after its handler
\* had invoked the cancel function, and has invoked it once itself
C6_Witness ==
    /\ rkind = "Wait" /\ rpc = "returned" /\ retPath = "ctx"
    /\ hdlCancels = 1 /\ redCancels = 1

\* C7: a send on the result channel never blocks: the channel never holds more
\* than qty Results, and whenever a worker stands at its send (or Do at the
\* send for a failed target would) the send can proceed
C7_PostNeverBlocks ==
    /\ Len(done) <= qty
    /\ \A t \in Targets : wpc[t] = "post" => ENABLED Post(t)
    /\ \A t \in Targets : (doIdx = t /\ t <= qty) => ENABLED DoBuildFail(t)

\* C7 witness: the caller never called Wait or First, and both workers of a
\* batch of two have sent their Result and ended
C7_Witness ==
    /\ rpc = "idle" /\ qty = 2 /\ Len(done) = 2
    /\ \A t \in Targets : wpc[t] = "exit"

\* the Result target t has sent, once its worker has ended
Sent(t) == wpc[t] = "exit" /\ posted[t] = 1

\* what the client returned to target t at its last attempt so far
LastOutcome(t) == hist[t][Len(hist[t])]

\* C8 as first stated: with retry > 0, when the client first answers with a
\* success status at attempt k+1, the worker makes k+1 calls and no more, and
\* the Result it sends carries that response and a nil Err
C8_Original_SuccessAfterFailures ==
    \A t \in Targets :
        (retry > 0 /\ FirstSuccessAt(t) > 0) =>
            /\ calls[t] = FirstSuccessAt(t)
            /\ Sent(t) =>
                /\ result[t].resp = [status |-> hist[t][FirstSuccessAt(t)].status,
                                     attempt |-> FirstSuccessAt(t)]
                /\ result[t].err = Nil

\* C8 as amended: the same, but the Err of the Result is nil only if the body
\* of the success response could be read; it is the read error otherwise
C8_SuccessAfterFailures ==
    \A t \in Targets :
        (retry > 0 /\ FirstSuccessAt(t) > 0) =>
            /\ calls[t] = FirstSuccessAt(t)
            /\ FirstSuccessAt(t) <= retry
            /\ Sent(t) =>
                /\ result[t].resp = [status |-> hist[t][FirstSuccessAt(t)].status,
                                     attempt |-> FirstSuccessAt(t)]
                /\ result[t].err \in {Nil, "read"}

\* C8 witness: with a retry limit of 3 the client failed twice, with an error
\* and with a 500, then answered 201, and the Result was sent with a nil Err
C8_Witness ==
    /\ retry = 3 /\ Sent(1)
    /\ Len(hist[1]) = 3
    /\ hist[1][1].err = "transport" /\ hist[1][2].status = 500
    /\ hist[1][3].status = StatusCreated
    /\ result[1].err = Nil

\* C9 as first stated: with retry > 0 and a client that never answers with a
\* success status, the worker makes exactly retry calls and the Result it
\* sends carries the response and the error of the last of them
C9_Original_LastFailureCarried ==
    \A t \in Targets :
        (retry > 0 /\ Sent(t) /\ calls[t] > 0 /\ FirstSuccessAt(t) = 0) =>
            /\ calls[t] = retry
            /\ Len(hist[t]) = retry
            /\ result[t].resp = IF LastOutcome(t).status = 0 THEN NilResp
                                ELSE [status |-> LastOutcome(t).status, attempt |-> retry]
            /\ result[t].err = LastOutcome(t).err

\* C9 as amended: the same, but when the body of the last response cannot be
\* read the Err of the Result is the read error
C9_LastFailureCarried ==
    \A t \in Targets :
        (retry > 0 /\ Sent(t) /\ calls[t] > 0 /\ FirstSuccessAt(t) = 0) =>
            /\ calls[t] = retry
            /\ Len(hist[t]) = retry
            /\ result[t].resp = IF LastOutcome(t).status = 0 THEN NilResp
                                ELSE [status |-> LastOutcome(t).status, attempt |-> retry]
            /\ \/ result[t].err = LastOutcome(t).err
               \/ result[t].resp # NilResp /\ result[t].err = "read"

\* C9 witness: with a retry limit of 3 the client answered 500, then failed
\* with an error, then answered 429, and the Result carries the 429 of the
\* third attempt
C9_Witness ==
    /\ retry = 3 /\ Sent(1) /\ calls[1] = 3
    /\ hist[1][1].status = 500 /\ hist[1][2].err = "transport"
    /\ result[1].resp = [status |-> StatusTooManyRequests, attempt |-> 3]
    /\ result[1].err = Nil

\* C10: once the batch context is done, a worker that has made a call makes
\* no further one: the attempts it has left are skipped
C10_NoRetryAfterCtxDone ==
    [][\A t \in Targets : (ctx = "done" /\ calls[t] > 0) => calls'[t] = calls[t]]_vars

\* number of attempts of target t, among the first n, that were not the last
\* attempt the retry limit allows and were answered with a 429
RECURSIVE RateLimited(_, _)
RateLimited(t, n) ==
    IF n = 0 THEN 0
    ELSE RateLimited(t, n - 1) +
         (IF n < retry /\ hist[t][n].status = 429 THEN 1 ELSE 0)

\* C11: the worker has slept exactly once for every answered attempt that was
\* not the last one allowed and whose status was 429 (the sleep for the latest
\* such attempt may still be ahead of it), and never otherwise; with a retry
\* limit of 3 and a client that answers 429 three times, the Result follows 3
\* calls and 2 sleeps and carries the 429 of the third attempt
C11_SleepOnlyAfter429 ==
    \A t \in Targets :
        /\ sleeps[t] = RateLimited(t, Len(hist[t])) - (IF wpc[t] = "sleep" THEN 1 ELSE 0)
        /\ wpc[t] = "sleep" =>
              /\ LastOutcome(t).status = 429
              /\ Len(hist[t]) < retry
        /\ (/\ retry = 3 /\ Sent(t) /\ Len(hist[t]) = 3
            /\ \A k \in 1..3 : hist[t][k].status = 429) =>
              /\ calls[t] = 3
              /\ sleeps[t] = 2
              /\ result[t].resp = [status |-> 429, attempt |-> 3]

\* C11 witness: retry limit 3, the client answered 429 three times and the
\* Result has been sent after 2 sleeps
C11_Witness ==
    /\ retry = 3 /\ Sent(1) /\ Len(hist[1]) = 3
    /\ \A k \in 1..3 : hist[1][k].status = 429
    /\ sleeps[1] = 2

\* C12: by the time a worker's Result is posted, the body of every response
\* it obtained has been closed exactly once, the final one included even when
\* reading it failed.  Violated: after a failed ioutil.ReadAll line 194 only
\* records the error and the body of the final response stays open.
C12_EveryBodyClosedOnce ==
    \A t \in Targets :
        Sent(t) =>
            \A k \in 1..Len(hist[t]) : hist[t][k].status # 0 => closes[t][k] = 1

\* C13: with a POST or PUT body and a retry limit above 0, no two attempts of
\* one worker are executed with the same body reader, and only the first one
\* reads the original reader
C13_FreshBodyPerAttempt ==
    \A t \in Targets :
        (bodyKind = "cloneable" /\ retry > 0) =>
            /\ Len(bodyUsed[t]) = calls[t]
            /\ \A j, k \in 1..Len(bodyUsed[t]) :
                   /\ j # k => bodyUsed[t][j] # bodyUsed[t][k]
                   /\ bodyUsed[t][k] = OriginalBody <=> k = 1
                   /\ bodyUsed[t][k] # NoBody

\* C13 witness: a worker finished after three attempts of a request with a
\* body, the last two on copies
C13_Witness ==
    /\ bodyKind = "cloneable" /\ retry = 3 /\ Sent(1)
    /\ Len(bodyUsed[1]) = 3
    /\ bodyUsed[1][2] # OriginalBody /\ bodyUsed[1][3] # bodyUsed[1][2]

\* C14: a target whose request cannot be built or whose interceptor fails has
\* its Result, with that error and a nil Response, in the channel before Do
\* goes on; the client is never invoked for it; and once Do has returned every
\* other target of the batch has been dispatched or failed the same way
C14_FailedTargetDoesNotAbortBatch ==
    /\ \A t \in Targets :
           (wpc[t] = "failed" \/ result[t].err \in {"build", "intercept"}) =>
               /\ wpc[t] = "failed" /\ t < doIdx
               /\ posted[t] = 1
               /\ result[t] = [req |-> t, resp |-> NilResp, err |-> result[t].err]
               /\ result[t].err \in {"build", "intercept"}
               /\ calls[t] = 0 /\ hist[t] = <<>>
               /\ \/ \E k \in 1..Len(done) : done[k] = result[t]
                  \/ rpc = "handle" /\ cur = result[t]
                  \/ \E k \in 1..Len(consumed) : consumed[k].res = result[t]
    /\ DoReturned => \A t \in Targets : t <= qty => wpc[t] # "pending"

\* C14 witness: the interceptor failed the first target of two, Do returned,
\* and the second target's worker invoked the client and sent its Result
C14_Witness ==
    /\ qty = 2 /\ DoReturned
    /\ wpc[1] = "failed" /\ result[1].err = "intercept" /\ calls[1] = 0
    /\ wpc[2] = "exit" /\ calls[2] >= 1 /\ posted[2] = 1

\* the number of replicas that reported acceptance (answered 200)
Acceptances == Cardinality({b \in Replicas : accepted[b] = "yes"})

\* C15: when UpdateCollaboratorToBlobbers or RemoveCollaboratorFromBlobbers
\* returns, having started from a count of zero, its verdict is true exactly
\* when the number of replicas that reported acceptance reaches the threshold,
\* in whatever order the replicas reported
C15_VerdictIffQuorum ==
    cpc = "returned" =>
        /\ consensus = Acceptances
        /\ verdict = (Acceptances >= thresh)

\* C15 witness: four replicas under threshold 3, the second one refusing and
\* the other three accepting: the operation returned true
C15_Witness ==
    /\ cpc = "returned" /\ numList = 4 /\ thresh = 3
    /\ accepted = [b \in Replicas |-> IF b = 2 THEN "no" ELSE "yes"]
    /\ verdict = TRUE

\* C16: the operations never block: whenever the caller is about to receive the
\* next boolean, every worker having returned, a boolean is waiting in rspCh.
\* Violated: a worker whose request cannot be built returns at line 55 / 112
\* without sending, so a receive of lines 35 / 92 waits forever.
C16_ReceiveNeverBlocks ==
    (cpc = "collect" /\ ci < numList) => rspCh # <<>>

\* C17: the caller receives booleans, increments the count and computes the
\* verdict only once the wait-group counter is zero and every worker has
\* returned, and the count moves only with the iterations of the caller's loop
C17_CountOnlyAfterJoin ==
    /\ (cpc \in {"collect", "returned"} \/ ci > 0 \/ consensus > 0) =>
           /\ wg = 0
           /\ \A b \in Replicas : b <= numList => bpc[b] = "done"
    /\ consensus <= ci
    /\ wg = Cardinality({b \in Replicas : bpc[b] \in {"start", "http", "sent"}})

\* C17 witness: with three replicas, all workers returned, the caller has
\* received one acceptance and counted it
C17_Witness ==
    /\ cpc = "collect" /\ numList = 3 /\ ci = 1 /\ consensus = 1
    /\ \A b \in Replicas : b <= numList => bpc[b] = "done"

\* C18 as stated: once the batch context is done, Wait at its select receives
\* no further Result.  Violated: with r.ctx done and a Result buffered in
\* r.done both cases of the select are ready and Go may take the receive.
C18_Original_NoRecvAfterCtxDone ==
    [][(rkind = "Wait" /\ ctx = "done" /\ rpc = "select") => rpc' # "handle"]_vars

\* C18, amended: once the batch context is done the return of the errors
\* accumulated so far is available to Wait at every select; when Wait takes
\* it, it returns exactly the errors of the Results handled so far and handles
\* no Result afterwards, whatever is still buffered in the channel
C18_CtxReturnGivesErrsSoFar ==
    rkind = "Wait" =>
        /\ (rpc = "select" /\ ctx = "done") => ENABLED WaitCtxDone
        /\ retPath = "ctx" =>
               /\ ctx = "done"
               /\ rpc \in {"defer", "returned"}
               /\ ret = Slice(FailedErrs(consumed))
               /\ ndone = Len(consumed) /\ ndone < qty

\* C18 witness: Wait returned on the done context with the one error it had
\* collected, leaving a Result buffered in the channel
C18_Witness ==
    /\ rkind = "Wait" /\ rpc = "returned" /\ retPath = "ctx"
    /\ Len(ret.list) = 1 /\ Len(consumed) = 1
    /\ Len(done) >= 1

\* C19: once the handler has invoked the cancel function during Wait or First,
\* the reducer is never stuck (at its select the return on the done context
\* is available, the handler step and the deferred cancel can run), what it
\* returns is the errors of the Results handled up to its return, or nil when
\* First accepted one, and every worker still running can take its next step,
\* up to the send of its Result
C19_HandlerCancelTolerated ==
    hdlCancels > 0 =>
        /\ ctx = "done" /\ rkind \in {"Wait", "First"} /\ Len(consumed) >= 1
        /\ rpc = "select" => ENABLED SelectCtxDone(rkind)
        /\ rpc = "handle" =>
               ENABLED (\E h \in HandlerChoices(cur) : WaitHandle(h) \/ FirstHandle(h))
        /\ rpc = "defer" => ENABLED Deferred
        /\ rpc \in {"defer", "returned"} =>
               /\ retPath \in {"ctx", "all", "first"}
               /\ retPath \in {"ctx", "all"} => ret = Slice(FailedErrs(consumed))
               /\ retPath = "first" =>
                      ret = NilSlice /\ ~consumed[Len(consumed)].rejected
        /\ \A t \in Targets :
               /\ wpc[t] # "pending" \/ t > qty
               /\ wpc[t] = "loop" => ENABLED ClientCall(t)
               /\ wpc[t] = "incall" =>
                      ENABLED (\E o \in ClientOutcomes(ctx) : ClientReturn(t, o))
               /\ wpc[t] = "sleep" => ENABLED Sleep(t)
               /\ wpc[t] = "read" => ENABLED (\E rf \in BOOLEAN : ReadBody(t, rf))
               /\ wpc[t] = "post" => ENABLED Post(t)

\* C19 witness: the handler cancelled the batch on the first of two Results,
\* Wait returned on the done context, and the other worker, which was still
\* to send, has sent its Result and exited
C19_Witness ==
    /\ qty = 2 /\ rkind = "Wait" /\ rpc = "returned" /\ retPath = "ctx"
    /\ hdlCancels = 1 /\ Len(consumed) = 1
    /\ Len(done) = 1
    /\ \A t \in Targets : wpc[t] = "exit" /\ posted[t] = 1

C21_NoWorkerPanics ==
    \A t \in Targets : wpc[t] # "panic"

\* C22 as stated: First returns a non-empty error list only when it has
\* consumed all qty Results and each was rejected.  Violated: on the done
\* context First returns the errors accumulated so far (lines 275-276) while
\* other targets are still pending.
C22_Original_ErrsOnlyWhenAllFailed ==
    (rkind = "First" /\ rpc \in {"defer", "returned"} /\ ret.list # <<>>) =>
        /\ Len(consumed) = qty
        /\ \A k \in 1..Len(consumed) : consumed[k].rejected

\* C22, amended: a non-empty list returned by First holds one error for every
\* Result First consumed, each of them rejected; First returned it either after
\* consuming all qty Results or, with fewer consumed, on the done context
C22_ErrsOnlyOfRejected ==
    (rkind = "First" /\ rpc \in {"defer", "returned"} /\ ret.list # <<>>) =>
        /\ \A k \in 1..Len(consumed) : consumed[k].rejected
        /\ ret = Slice(FailedErrs(consumed))
        /\ Len(ret.list) = Len(consumed)
        /\ \/ retPath = "all" /\ Len(consumed) = qty
           \/ retPath = "ctx" /\ ctx = "done" /\ Len(consumed) < qty

\* C22 witness: First returned one error on the done context while the other
\* target of the batch was still in its client call
C22_Witness ==
    /\ rkind = "First" /\ rpc = "returned" /\ retPath = "ctx" /\ qty = 2
    /\ Len(ret.list) = 1 /\ Len(consumed) = 1
    /\ \E t \in Targets : wpc[t] = "incall"

\* C23: on a batch of no targets Wait and First return the empty, non-nil
\* error list straight from the check of lines 223 and 269: the reducer never
\* reaches its select, receives no Result and invokes no handler
C23_ZeroTargetsReturnAtOnce ==
    (qty = 0 /\ rkind \in {"Wait", "First"}) =>
        /\ rpc \in {"defer", "returned"}
        /\ retPath = "zero"
        /\ ret = Slice(<<>>)
        /\ consumed = <<>> /\ cur = NoResult /\ ndone = 0
        /\ hdlCancels = 0

\* C23 witness: Wait is returning from a batch of no targets that has a
\* handler, its context still active
C23_Witness ==
    /\ qty = 0 /\ hasHandle /\ rkind = "Wait" /\ rpc = "defer" /\ ctx = "active"
    /\ ret = Slice(<<>>)

\* C24: with a retry limit of zero or below a dispatched worker calls the
\* client once, whatever it answers, never sleeps, closes nothing before the
\* read, and sends a Result carrying the response and the error of that one
\* call (the read error instead when the body of the response cannot be read)
C24_NoRetryMeansOneCall ==
    \A t \in Targets :
        retry <= 0 =>
            /\ calls[t] <= 1 /\ sleeps[t] = 0 /\ wpc[t] \notin {"sleep", "panic"}
            /\ Len(hist[t]) <= calls[t]
            /\ (wpc[t] \in {"read", "post", "exit"}) =>
                   /\ calls[t] = 1 /\ Len(hist[t]) = 1
            /\ Sent(t) =>
                   /\ result[t].resp = IF hist[t][1].status = 0 THEN NilResp
                                       ELSE [status |-> hist[t][1].status, attempt |-> 1]
                   /\ \/ result[t].err = hist[t][1].err
                      \/ result[t].resp # NilResp /\ result[t].err = "read"

\* C24 witness: with a negative retry limit the client answered 429 to the
\* only call, and the Result carrying that response was sent
C24_Witness ==
    /\ retry = -1 /\ Sent(1) /\ calls[1] = 1 /\ sleeps[1] = 0
    /\ result[1] = [req |-> 1, resp |-> [status |-> 429, attempt |-> 1], err |-> Nil]

\* the number of TRUE among the booleans of a sequence
RECURSIVE CountTrue(_)
CountTrue(q) ==
    IF q = <<>> THEN 0 ELSE (IF Head(q) THEN 1 ELSE 0) + CountTrue(Tail(q))

\* the replicas whose handler has run
HandlerRan == {b \in Replicas : accepted[b] \in {"yes", "no"}}

\* C25: every replica whose handler has run has sent exactly one boolean on
\* rspCh, true exactly when the handler was given a nil error and status 200;
\* a replica without a request has sent none; and a worker about to run its
\* handler always finds room in rspCh
C25_OneBooleanPerHandler ==
    /\ Len(rspCh) + ci = Cardinality(HandlerRan)
    /\ CountTrue(rspCh) + consensus = Acceptances
    /\ Len(rspCh) <= numList
    /\ \A b \in Replicas :
           /\ bpc[b] = "http" =>
                  ENABLED (\E o \in HttpOutcomes : WorkerHttpDo(cop, b, o))
           /\ bpc[b] = "sent" => b \in HandlerRan
           /\ bpc[b] \in {"idle", "start", "http"} => accepted[b] = "none"

\* C25 witness: of three replicas the first answered 200 and the other two did
\* not accept; the channel holds true, false, false and nothing is received yet
C25_Witness ==
    /\ numList = 3 /\ cpc = "join"
    /\ accepted[1] = "yes" /\ accepted[2] = "no" /\ accepted[3] = "no"
    /\ rspCh = <<TRUE, FALSE, FALSE>>

\* the non-nil Errs of the Results in a reducer's log, in order
RECURSIVE NonNilErrs(_)
NonNilErrs(log) ==
    IF log = <<>> THEN <<>>
    ELSE LET rest == NonNilErrs(SubSeq(log, 1, Len(log) - 1))
             last == log[Len(log)]
         IN IF last.res.err # Nil
            THEN Append(rest, [req |-> last.res.req, err |-> last.res.err])
            ELSE rest

\* C26: with no handler a consumed Result counts as a failure exactly when its
\* Err is non-nil, whatever the status of its Response: Wait returns the
\* non-nil Errs of the Results it consumed and nothing else, and First returns
\* nil as soon as it consumes a Result with a nil Err
C26_FailureIffErrNonNil ==
    ~hasHandle =>
        /\ \A k \in 1..Len(consumed) :
               consumed[k].rejected <=> consumed[k].res.err # Nil
        /\ (rkind = "Wait" /\ rpc \in {"defer", "returned"}) =>
               ret = Slice(NonNilErrs(consumed))
        /\ (rkind = "First" /\ \E k \in 1..Len(consumed) : consumed[k].res.err = Nil) =>
               /\ rpc \in {"defer", "returned"}
               /\ ret = NilSlice

\* C26 witness: with no handler and a retry limit of 2 the client answered 500
\* twice; the Result carries the 500 and a nil Err, and Wait returned an empty
\* list
C26_Witness ==
    /\ ~hasHandle /\ retry = 2 /\ rkind = "Wait" /\ rpc = "returned" /\ retPath = "all"
    /\ Len(hist[1]) = 2 /\ hist[1][1].status = 500
    /\ consumed[1].res = [req |-> 1, resp |-> [status |-> 500, attempt |-> 2], err |-> Nil]
    /\ ret = Slice(<<>>)

\* the Results a reducer has taken from the channel: those it has handled
\* and the one it is handling
Taken == Len(consumed) + (IF rpc = "handle" THEN 1 ELSE 0)

\* C27: with a handler, every handler invocation is a step of the reducer on
\* the one Result it has just received: it handles that Result once, each
\* target's Result at most once and at most qty Results per call, every Result
\* sent is in the channel or was taken by the reducer, and once the reducer is
\* returning or has returned no handler runs
C27_HandlerOncePerOutcome ==
    [][hasHandle =>
          /\ consumed' # consumed =>
                 /\ rpc = "handle" /\ rpc' # "handle"
                 /\ Len(consumed') = Len(consumed) + 1
                 /\ SubSeq(consumed', 1, Len(consumed)) = consumed
                 /\ consumed'[Len(consumed')].res = cur
          /\ (rpc = "handle" /\ rpc' # "handle") => consumed' # consumed
          /\ rpc \in {"idle", "defer", "returned"} =>
                 /\ consumed' = consumed /\ hdlCancels' = hdlCancels
                 /\ rpc' # "handle"
          /\ Len(consumed') <= qty
          /\ \A j, k \in 1..Len(consumed') :
                 j # k => consumed'[j].res.req # consumed'[k].res.req
          /\ (rkind' # "none") => Len(done') + Len(consumed')
                                   + (IF rpc' = "handle" THEN 1 ELSE 0) = TotalPosted'
      ]_vars

\* C27 witness: Wait with a handler has returned after handling the Results
\* of both targets of a batch of two, one invocation each
C27_Witness ==
    /\ hasHandle /\ qty = 2 /\ rkind = "Wait" /\ rpc = "returned"
    /\ Len(consumed) = 2 /\ consumed[1].res.req # consumed[2].res.req

\* C28: throughout Wait and First the errors accumulated are at most as many
\* as the Results consumed, and those, with the one being handled, at most
\* qty; when First returns having consumed all qty Results, each rejected, the
\* list it returns holds exactly qty errors
C28_ErrsAtMostConsumed ==
    rkind \in {"Wait", "First"} =>
        /\ Len(errs) <= Len(consumed)
        /\ Taken <= qty
        /\ (/\ rkind = "First" /\ rpc \in {"defer", "returned"}
            /\ Len(consumed) = qty
            /\ \A k \in 1..Len(consumed) : consumed[k].rejected) =>
               /\ ret # NilSlice
               /\ Len(ret.list) = qty

\* C28 witness: First has returned two errors after both Results of a batch
\* of two were rejected
C28_Witness ==
    /\ rkind = "First" /\ rpc = "returned" /\ qty = 2
    /\ Len(consumed) = 2 /\ consumed[1].rejected /\ consumed[2].rejected
    /\ Len(ret.list) = 2

\* C29 as stated: Wait returns the empty error list only when it has consumed
\* all qty Results and each was accepted.  Violated: on the done context Wait
\* returns the errors accumulated so far (lines 229-230), an empty list when
\* none was rejected yet, while other targets are still unconsumed.
C29_Original_EmptyOnlyWhenAllAccepted ==
    (rkind = "Wait" /\ rpc \in {"defer", "returned"} /\ ret.list = <<>>) =>
        /\ Len(consumed) = qty
        /\ \A k \in 1..Len(consumed) : ~consumed[k].rejected

\* C29, amended: when Wait returns the empty error list every Result it
\* consumed was accepted; it consumed all qty of them unless it returned on the
\* done context, and then fewer than qty, the rest left unconsumed
C29_EmptyOnlyIfNoneRejected ==
    (rkind = "Wait" /\ rpc \in {"defer", "returned"} /\ ret.list = <<>>) =>
        /\ ret = Slice(<<>>)
        /\ \A k \in 1..Len(consumed) : ~consumed[k].rejected
        /\ \/ retPath \in {"all", "zero"} /\ Len(consumed) = qty
           \/ retPath = "ctx" /\ ctx = "done" /\ Len(consumed) < qty

\* C29 witness: Wait returned the empty list on the done context after one
\* accepted Result, the other target of the batch still in its client call
C29_Witness ==
    /\ rkind = "Wait" /\ rpc = "returned" /\ retPath = "ctx" /\ qty = 2
    /\ ret = Slice(<<>>) /\ Len(consumed) = 1 /\ ~consumed[1].rejected
    /\ \E t \in Targets : wpc[t] = "incall"

\* C30: with Do called again while goroutines of the earlier batch are
\* running, every Result a call of Wait receives is of the batch whose Do
\* preceded it, the new batch's channel holds Results of the new batch only,
\* and a goroutine about to send its Result finds room in a channel
C30_BatchesIsolated ==
    /\ \A k \in 1..Len(xgot) : xgot[k].batch = xbatch
    /\ \A k \in 1..Len(chan["new"]) : chan["new"][k].batch = "new"
    /\ \A p \in Batches \X Targets :
           hpc[p] = "send" => \E c \in DoneRead(p[1]) : Len(chan[c]) < chanCap[c]

\* C31: whenever a call of UpdateCollaboratorToBlobbers or
\* RemoveCollaboratorFromBlobbers has returned, on a request used for earlier
\* calls or not, its verdict is true exactly when the replicas that reported
\* acceptance during that call reach the threshold
C31_VerdictOfThisCallOnly ==
    cpc = "returned" => (verdict <=> isConsensusOk(Acceptances, thresh))

\* C32: when Next takes an error from the subscription, or UnpackLog fails on
\* the log Next received, Error() is that error and that call of Next returns
\* false; once Error() is non-nil it stays that error, and every call of Next
\* returns false at once (lines 505-508), consuming no log and delivering no
\* event
C32_ErrorSticksAndStopsIteration ==
    [][/\ (subErr = "retrieval" /\ subErr' # subErr) =>
              /\ Error' = "retrieval" /\ itDone'
              /\ npc' = "entered"
       /\ (itFail = Nil /\ itFail' # Nil /\ itFail' # "retrieval") =>
              /\ Error' = "parsing"
              /\ itLogs # <<>> /\ Head(itLogs).bad /\ itLogs' = Tail(itLogs)
              /\ npc' = "idle" /\ nret' = [value |-> FALSE, by |-> "parsing"]
       /\ (npc = "entered" /\ npc' = "idle" /\ nret'.by \in {"parsing", "failed"}) =>
              /\ ~nret'.value
              /\ Error' \in {"parsing", "retrieval"}
              /\ nret'.by = "parsing" => Error' = "parsing"
       /\ itFail # Nil =>
              /\ itFail' = itFail
              /\ delivered' = delivered /\ itEvent' = itEvent
              /\ Len(itLogs') >= Len(itLogs)
              /\ SubSeq(itLogs', 1, Len(itLogs)) = itLogs
              /\ (npc = "entered" /\ npc' = "idle") =>
                     nret' = [value |-> FALSE, by |-> "failed"]
              /\ npc = "entered" => npc' = "idle" \/ itLogs' # itLogs \/ subErr' # subErr
      ]_vars

\* C32 witness: Next has returned false on the retrieval error of the
\* subscription after delivering a log, Error() is that error and a log is
\* left in the channel
C32_Witness ==
    /\ npc = "idle" /\ nret = [value |-> FALSE, by |-> "failed"]
    /\ Error = "retrieval"
    /\ delivered # <<>> /\ itLogs # <<>>

\* Next has received nil from the subscription's error channel: the
\* subscription completed, or was closed, without error
Completed == itDone /\ itFail # "retrieval"

\* the ids of a sequence of logs
LogIds(q) == [k \in 1..Len(q) |-> q[k].id]

\* C33 as stated: after the subscription completed without error a call of
\* Next returns false only when the log channel is empty.  Violated: when
\* UnpackLog fails on a buffered log Next returns false (lines 514-517) with
\* the logs behind it still in the channel, and they are never delivered.
C33_Original_FalseOnlyWhenEmpty ==
    (Completed /\ npc = "idle" /\ nret.by # "none" /\ ~nret.value) => itLogs = <<>>

\* C33, amended: the logs Next delivered are in channel order, none twice,
\* and until a log fails to unpack they are, with the logs still buffered, all
\* the logs sent; after the subscription completed without error a call of
\* Next never waits, returns false by the default case only when the channel
\* is empty and every log was delivered, and otherwise returns false only
\* because a log failed to unpack
C33_DrainsUntilEmptyOrParseError ==
    /\ \A j, k \in 1..Len(delivered) : j < k => delivered[j] < delivered[k]
    /\ itFail = Nil => delivered \o LogIds(itLogs) = [k \in 1..produced |-> k]
    /\ Completed =>
           /\ subErr = "closed"
           /\ npc = "entered" =>
                  \/ ENABLED IterNextFailed
                  \/ ENABLED IterNextDoneRecv
                  \/ ENABLED IterNextDoneEmpty
           /\ (npc = "idle" /\ nret.by = "empty") =>
                  /\ itLogs = <<>> /\ itFail = Nil
                  /\ Len(delivered) = produced
           /\ (npc = "idle" /\ ~nret.value) =>
                  \/ nret.by = "empty"
                  \/ nret.by \in {"parsing", "failed"} /\ itFail = "parsing"

\* C33 witness: the call of Next that has just returned found the
\* subscription completed and delivered the second of three logs, after the
\* first and with the third still buffered
C33_Witness ==
    /\ Completed /\ npc = "idle" /\ nret = [value |-> TRUE, by |-> "log"]
    /\ produced = 3 /\ delivered = <<1, 2>> /\ itEvent = 2
    /\ LogIds(itLogs) = <<3>>

====
